---- MODULE Spec2Model ----
(***************************************************************************)
(* mockchain: a single-node ledger (chain + pending-transaction pool)      *)
(* behind one mutex, a proof-of-work block producer, a background mining   *)
(* loop and three request handlers (submit_transaction, get_balance,       *)
(* request_faucet).  Modelled from src/src/main.rs (the Blockchain type    *)
(* lives only there); block.rs, transaction.rs, consensus/pow.rs and       *)
(* rpc.rs hold the same code split into modules.                           *)
(*                                                                         *)
(* Idealisations, stated once:                                             *)
(*  - SHA-256 is collision free, and its hex digest is scaled from 64      *)
(*    digits to 2.  A digest is the record [hex |-> its 2 hex digits,      *)
(*    pre |-> the hashed content]: the digits are computed arithmetically  *)
(*    from the content (so the nonce search is a real search), the content *)
(*    keeps digests of different contents different.  The genesis         *)
(*    sentinel "0" is the one-digit string <<0>>.                          *)
(*  - An ECDSA signature is [compact, signer, msg]: it verifies under key  *)
(*    k for message m iff it is well formed, signer = k and msg = m.       *)
(*  - Freshly generated miner keys are named by the order of generation.   *)
(*  - Amounts are integers where the sums stay far below 2^64; where the   *)
(*    width matters (SpecWide) they are exact u64 values, held as four     *)
(*    limbs of 16 bits.                                                    *)
(***************************************************************************)
EXTENDS Integers, Sequences, FiniteSets, TLC

\* ------------------------------------------------------------- constants
FAUCET_MOCKCHAIN_ADDRESS == "FAUCET_MOCKCHAIN_ADDRESS"

\* transaction_pool.len() > 10 in the background loop
POOL_THRESHOLD == 10

\* balance += 50 per mined block
MINING_REWARD == 50

\* let faucet_amount = 1000
faucet_amount == 1000

\* hex::encode: base of one digest character
HEX_BASE == 16

\* ---------------------------------------------------------------- bounds
\* highest proof-of-work difficulty the ledger is constructed with
MaxDifficulty == 1

\* the chain grows to at most this many blocks (genesis included)
MaxChain == 3

\* callers get this many freely chosen submissions admitted; any further
\* admitted submission is a resubmission of the transaction at the pool's tail
MaxVaried == 1

\* the pool grows to at most POOL_THRESHOLD + MaxOver entries
MaxOver == 1

\* timestamps (wall clock readings and caller supplied ones) are 1..MaxTime
MaxTime == 1

\* a caller validates the same block up to this many times in a row
MaxValidations == 2

\* highest difficulty a proof-of-work policy is constructed with when its
\* nonce search is followed step by step (one above the digest's length)
MaxSearchDifficulty == 3

\* a nonce search is followed for at most this many increments (one full
\* round of the digest's digits)
MaxNonce == 256

\* where amounts are followed at their full width, the pool grows to at most
\* this many entries
MaxWidePool == 1

PoolCap == POOL_THRESHOLD + MaxOver
Times == 1..MaxTime

\* ------------------------------------------------------------- addresses
\* "alice" and "mallory" stand for hex encoded secp256k1 public keys whose
\* secret keys callers hold; "m1" for a key a direct caller mines with;
\* "badaddr" is not hex; "" is hex of zero bytes, which is no public key.
LoopKey == "k0"
FreshKeys == <<"k1", "k2", "k3">>
MinerKeys == {LoopKey, "m1"} \cup {FreshKeys[i] : i \in 1..Len(FreshKeys)}
UserKeys == {"alice", "mallory"}
Senders == {FAUCET_MOCKCHAIN_ADDRESS, "alice", "badaddr"}
Recipients == {"alice", "bob", FAUCET_MOCKCHAIN_ADDRESS}
Amounts == {600, 2000}
AllAddresses == UserKeys \cup MinerKeys \cup {"bob", "badaddr", "", FAUCET_MOCKCHAIN_ADDRESS}

\* hex::decode(&self.from) succeeds
HexDecodes(a) == a \in UserKeys \cup MinerKeys \cup {""}

\* PublicKey::from_slice(&public_key_bytes) succeeds
IsPublicKey(a) == a \in UserKeys \cup MinerKeys

\* ------------------------------------------------------------ signatures
EmptySignature == [compact |-> FALSE, signer |-> "", msg |-> <<>>]

\* the signature the holder of key k makes over message m
Sign(k, m) == [compact |-> TRUE, signer |-> k, msg |-> m]

\* Transaction::get_message_to_sign: the digest of (from, to, amount, timestamp)
get_message_to_sign(tx) == <<tx.from, tx.to, tx.amount, tx.timestamp>>

\* Transaction::verify
verify(tx) ==
    IF tx.from = FAUCET_MOCKCHAIN_ADDRESS THEN TRUE
    ELSE IF ~HexDecodes(tx.from) THEN FALSE
    ELSE IF ~IsPublicKey(tx.from) THEN FALSE
    ELSE IF tx.signature.compact
         THEN tx.signature.signer = tx.from /\ tx.signature.msg = get_message_to_sign(tx)
         ELSE FALSE

\* ---------------------------------------------------------------- hashing
Modulus == HEX_BASE * HEX_BASE

AddrCode(a) ==
    CASE a = FAUCET_MOCKCHAIN_ADDRESS -> 1
      [] a = "alice" -> 2
      [] a = "bob" -> 3
      [] a = "mallory" -> 4
      [] a = "badaddr" -> 5
      [] OTHER -> 6

SigCode(s) == IF s.compact THEN 7 + AddrCode(s.signer) + Len(s.msg) ELSE 0

TxCode(tx) ==
    AddrCode(tx.from) * 7 + AddrCode(tx.to) * 11 + tx.amount + tx.timestamp * 3 + SigCode(tx.signature)

RECURSIVE TxsCode(_)
TxsCode(txs) == IF txs = <<>> THEN 0 ELSE (TxCode(Head(txs)) + 5 * TxsCode(Tail(txs))) % Modulus

RECURSIVE DigitsValue(_)
DigitsValue(ds) == IF ds = <<>> THEN 0 ELSE (DigitsValue(SubSeq(ds, 1, Len(ds) - 1)) * HEX_BASE + ds[Len(ds)]) % Modulus

\* the number whose two hex digits lead the digest of the block's content
Mix(b) ==
    (b.index * 31 + b.timestamp * 17 + TxsCode(b.transactions)
       + DigitsValue(b.previous_hash.hex) * 13 + Len(b.previous_hash.pre) * 3 + b.nonce * 37) % Modulus

\* Block::calculate_hash: SHA-256 over (index, timestamp, transactions,
\* previous_hash, nonce), hex encoded; miner and hash are not hashed
calculate_hash(b) ==
    [hex |-> <<Mix(b) \div HEX_BASE, Mix(b) % HEX_BASE>>,
     pre |-> <<b.index, b.timestamp, b.transactions, b.previous_hash, b.nonce>>]

\* String::from("0"), the genesis block's previous_hash
GenesisSentinel == [hex |-> <<0>>, pre |-> <<>>]

\* String::new()
EmptyString == [hex |-> <<>>, pre |-> <<>>]

\* "0".repeat(n)
Zeros(n) == [i \in 1..n |-> 0]

\* str::starts_with
starts_with(h, target) == Len(target) <= Len(h.hex) /\ SubSeq(h.hex, 1, Len(target)) = target

\* Block::new
Block_new(index, txs, previous_hash, now) ==
    LET b == [index |-> index, timestamp |-> now, transactions |-> txs,
              previous_hash |-> previous_hash, hash |-> EmptyString, nonce |-> 0, miner |-> ""]
    IN  [b EXCEPT !.hash = calculate_hash(b)]

\* the block after n more rounds of the loop body: nonce += 1, then
\* hash = calculate_hash(), so the hash is that of the last nonce
AfterRounds(block, n) ==
    LET b1 == [block EXCEPT !.nonce = @ + n]
    IN  [b1 EXCEPT !.hash = calculate_hash(b1)]

\* the while loop of generate_block, taken HEX_BASE rounds at a time: the
\* block returned is the one at the first nonce whose hash meets the target
RECURSIVE NonceSearch(_, _)
NonceSearch(block, target) ==
    IF starts_with(block.hash, target) THEN block
    ELSE LET hits == {n \in 1..HEX_BASE : starts_with(AfterRounds(block, n).hash, target)}
         IN  IF hits = {} THEN NonceSearch(AfterRounds(block, HEX_BASE), target)
             ELSE AfterRounds(block, CHOOSE n \in hits : \A m \in hits : n <= m)

\* mutant: the candidate block is returned without the nonce search
generate_block_unsearched(d, index, txs, previous_hash, now) ==
    Block_new(index, txs, previous_hash, now)

\* ProofOfWork::generate_block
generate_block(d, index, txs, previous_hash, now) ==
    NonceSearch(Block_new(index, txs, previous_hash, now), Zeros(d))

\* mutant: the link to the expected previous hash is not checked
validate_block_unlinked(d, block, previous_hash) ==
    IF block.hash # calculate_hash(block) THEN FALSE
    ELSE starts_with(block.hash, Zeros(d))

\* ProofOfWork::validate_block
validate_block(d, block, previous_hash) ==
    IF block.previous_hash # previous_hash THEN FALSE
    ELSE IF block.hash # calculate_hash(block) THEN FALSE
    ELSE starts_with(block.hash, Zeros(d))

\* ---------------------------------------------------------------- ledger
\* u64::saturating_sub
saturating_sub(a, b) == IF a >= b THEN a - b ELSE 0

\* the inner loop of get_balance: for tx in &block.transactions
RECURSIVE TxLoop(_, _, _)
TxLoop(txs, address, balance) ==
    IF txs = <<>> THEN balance
    ELSE LET tx == Head(txs)
             credited == IF tx.to = address THEN balance + tx.amount ELSE balance
             debited == IF tx.from = address THEN saturating_sub(credited, tx.amount) ELSE credited
         IN  TxLoop(Tail(txs), address, debited)

\* the outer loop of get_balance: for block in &self.chain
RECURSIVE BlockLoop(_, _, _)
BlockLoop(blocks, address, balance) ==
    IF blocks = <<>> THEN balance
    ELSE LET block == Head(blocks)
             after == TxLoop(block.transactions, address, balance)
             rewarded == IF block.miner = address THEN after + MINING_REWARD ELSE after
         IN  BlockLoop(Tail(blocks), address, rewarded)

\* the sum of the amounts of the transactions to an address, and from it
RECURSIVE CreditsIn(_, _)
CreditsIn(txs, address) ==
    IF txs = <<>> THEN 0
    ELSE (IF Head(txs).to = address THEN Head(txs).amount ELSE 0) + CreditsIn(Tail(txs), address)

RECURSIVE DebitsIn(_, _)
DebitsIn(txs, address) ==
    IF txs = <<>> THEN 0
    ELSE (IF Head(txs).from = address THEN Head(txs).amount ELSE 0) + DebitsIn(Tail(txs), address)

\* the transactions of a run of blocks, in order
RECURSIVE AllTransactions(_)
AllTransactions(c) == IF c = <<>> THEN <<>> ELSE Head(c).transactions \o AllTransactions(Tail(c))

\* mutant: credits minus debits over the whole chain, floored once, plus rewards
get_balance_net(c, address) ==
    LET credits == CreditsIn(AllTransactions(c), address)
        debits == DebitsIn(AllTransactions(c), address)
        mined == Cardinality({i \in DOMAIN c : c[i].miner = address})
    IN  (IF credits >= debits THEN credits - debits ELSE 0) + MINING_REWARD * mined

\* mutant: the replay starts after the genesis block
get_balance_after_genesis(c, address) == BlockLoop(Tail(c), address, 0)

\* Blockchain::get_balance (the sums stay far below 2^64 at these bounds)
get_balance(c, address) == BlockLoop(c, address, 0)

\* mutant: the balance is not checked
check_balance_skipped(c, address, amount) == TRUE

\* Blockchain::check_balance
check_balance(c, address, amount) == get_balance(c, address) >= amount

\* mutant: the transaction is queued at the front
push_front(pool, tx) == <<tx>> \o pool

\* VecDeque::push_back
push_back(pool, tx) == Append(pool, tx)

\* mutant: no faucet bypass, every transaction is verified and balance checked
add_transaction_no_bypass(c, pool, tx) ==
    IF ~verify(tx) THEN [pool |-> pool, success |-> FALSE]
    ELSE IF ~(get_balance(c, tx.from) >= tx.amount) THEN [pool |-> pool, success |-> FALSE]
    ELSE [pool |-> Append(pool, tx), success |-> TRUE]

\* Blockchain::add_transaction: the pool afterwards and the value returned
add_transaction(c, pool, tx) ==
    IF tx.from = FAUCET_MOCKCHAIN_ADDRESS THEN [pool |-> push_back(pool, tx), success |-> TRUE]
    ELSE IF ~verify(tx) THEN [pool |-> pool, success |-> FALSE]
    ELSE IF ~check_balance(c, tx.from, tx.amount) THEN [pool |-> pool, success |-> FALSE]
    ELSE [pool |-> push_back(pool, tx), success |-> TRUE]

\* mutant: the empty pool is not noticed
is_empty_never(pool) == FALSE

\* VecDeque::is_empty
is_empty(pool) == pool = <<>>

\* mutant: only the oldest transaction is taken
drain_front(pool) == [taken |-> <<Head(pool)>>, rest |-> Tail(pool)]

\* self.transaction_pool.drain(..).collect(): what is taken and what is left
drain(pool) == [taken |-> pool, rest |-> <<>>]

\* mutant: the new block reuses the tail's index
next_index_stale(previous_block) == previous_block.index

\* previous_block.index + 1
next_index(previous_block) == previous_block.index + 1

\* mutant: the new block takes the place of the chain's tail
push_over_tail(c, block) == Append(SubSeq(c, 1, Len(c) - 1), block)

\* self.chain.push(block.clone())
push(c, block) == Append(c, block)

\* the block mine_pending_transactions builds from the drained transactions:
\* generate_block on the tail's index + 1 and hash, then block.miner = miner
mined_block(d, previous_block, txs, miner, now) ==
    LET block == generate_block(d, next_index(previous_block), txs, previous_block.hash, now)
    IN  [block EXCEPT !.miner = miner]

\* one step of a per-address balance kept incrementally: the block's
\* transactions in order, then the reward of its miner
ApplyBlock(balance, block, address) ==
    LET after == TxLoop(block.transactions, address, balance)
    IN  IF block.miner = address THEN after + MINING_REWARD ELSE after

\* ------------------------------------------------------- 64-bit amounts
\* Where the width of u64 matters an amount is held exactly, as four limbs
\* of four hex digits each, least significant limb first.
LimbBase == HEX_BASE * HEX_BASE * HEX_BASE * HEX_BASE

\* 0u64
U64_ZERO == <<0, 0, 0, 0>>

\* u64::MAX
U64_MAX == [i \in DOMAIN U64_ZERO |-> LimbBase - 1]

\* the u64 of a number below LimbBase * LimbBase
U64(n) == [i \in DOMAIN U64_ZERO |-> IF i = 1 THEN n % LimbBase ELSE IF i = 2 THEN n \div LimbBase ELSE 0]

\* limb by limb addition: the limbs of the sum, then the carry out
RECURSIVE AddLimbs(_, _, _)
AddLimbs(a, b, carry) ==
    IF a = <<>> THEN <<carry>>
    ELSE LET s == Head(a) + Head(b) + carry
         IN  <<s % LimbBase>> \o AddLimbs(Tail(a), Tail(b), s \div LimbBase)

\* limb by limb subtraction: the limbs of the difference, then the borrow out
RECURSIVE SubLimbs(_, _, _)
SubLimbs(a, b, borrow) ==
    IF a = <<>> THEN <<borrow>>
    ELSE LET d == Head(a) - Head(b) - borrow
         IN  <<d % LimbBase>> \o SubLimbs(Tail(a), Tail(b), IF d < 0 THEN 1 ELSE 0)

\* u64::overflowing_add: the wrapped sum and whether a + b left the range
overflowing_add(a, b) ==
    LET r == AddLimbs(a, b, 0)
    IN  [value |-> SubSeq(r, 1, Len(a)), overflow |-> r[Len(a) + 1] = 1]

\* a >= b on u64
u64_ge(a, b) == SubLimbs(a, b, 0)[Len(a) + 1] = 0

\* u64::saturating_sub
saturating_sub_u64(a, b) ==
    LET r == SubLimbs(a, b, 0)
    IN  IF r[Len(a) + 1] = 1 THEN U64_ZERO ELSE SubSeq(r, 1, Len(a))

\* the inner loop of get_balance on u64: balance += tx.amount, then
\* balance = balance.saturating_sub(tx.amount); acc.overflow records
\* whether an addition has left the range so far
RECURSIVE TxLoop_u64(_, _, _)
TxLoop_u64(txs, address, acc) ==
    IF txs = <<>> THEN acc
    ELSE LET tx == Head(txs)
             sum == overflowing_add(acc.balance, tx.amount)
             credited == IF tx.to = address
                         THEN [balance |-> sum.value, overflow |-> acc.overflow \/ sum.overflow]
                         ELSE acc
             debited == IF tx.from = address
                        THEN [credited EXCEPT !.balance = saturating_sub_u64(@, tx.amount)]
                        ELSE credited
         IN  TxLoop_u64(Tail(txs), address, debited)

\* the outer loop of get_balance on u64: the block's transactions, then balance += 50
RECURSIVE BlockLoop_u64(_, _, _)
BlockLoop_u64(blocks, address, acc) ==
    IF blocks = <<>> THEN acc
    ELSE LET block == Head(blocks)
             after == TxLoop_u64(block.transactions, address, acc)
             sum == overflowing_add(after.balance, U64(MINING_REWARD))
             rewarded == IF block.miner = address
                         THEN [balance |-> sum.value, overflow |-> after.overflow \/ sum.overflow]
                         ELSE after
         IN  BlockLoop_u64(Tail(blocks), address, rewarded)

\* Blockchain::get_balance on u64: the balance with wrapping additions, and
\* whether an addition overflowed (the call panics where overflow is checked)
get_balance_u64(c, address) == BlockLoop_u64(c, address, [balance |-> U64_ZERO, overflow |-> FALSE])

\* Blockchain::check_balance on u64
check_balance_u64(c, address, amount) ==
    LET b == get_balance_u64(c, address)
    IN  [ok |-> u64_ge(b.balance, amount), overflow |-> b.overflow]

\* Blockchain::add_transaction on u64: the pool afterwards, the value
\* returned, and whether the balance check overflowed
add_transaction_u64(c, pool, tx) ==
    IF tx.from = FAUCET_MOCKCHAIN_ADDRESS
    THEN [pool |-> push_back(pool, tx), success |-> TRUE, overflow |-> FALSE]
    ELSE IF ~verify(tx) THEN [pool |-> pool, success |-> FALSE, overflow |-> FALSE]
    ELSE LET chk == check_balance_u64(c, tx.from, tx.amount)
         IN  IF ~chk.ok THEN [pool |-> pool, success |-> FALSE, overflow |-> chk.overflow]
             ELSE [pool |-> push_back(pool, tx), success |-> TRUE, overflow |-> chk.overflow]

\* the number an amount enters the digest's leading digits with
AmountCode(amount) == (amount[1] + amount[2] + amount[3] + amount[4]) % Modulus

\* mine_pending_transactions' block for transactions with u64 amounts: the
\* nonce search runs on the digits the content gives, the digest's content
\* is the block's content
mined_block_u64(d, previous_block, txs, miner, now) ==
    LET coded == [k \in DOMAIN txs |-> [txs[k] EXCEPT !.amount = AmountCode(@)]]
        b == mined_block(d, previous_block, coded, miner, now)
    IN  [b EXCEPT !.transactions = txs,
                  !.hash = [hex |-> b.hash.hex,
                            pre |-> <<b.index, b.timestamp, txs, b.previous_hash, b.nonce>>]]

\* ----------------------------------------------------------------- state
VARIABLES
    difficulty,        \* ProofOfWork.difficulty
    chain,             \* Blockchain.chain
    transaction_pool,  \* Blockchain.transaction_pool
    lock,              \* the Mutex around the Blockchain: "free" or its holder
    pc,                \* where each task is
    req,               \* each task's request and locals (tx, address, miner key)
    ret,               \* what the call a task is in has returned so far
    transactions,      \* mine_pending_transactions' local: the drained batch
    entry,             \* history: chain and pool when mine_pending_transactions was entered
    admitted,          \* history: the transactions add_transaction accepted, in order
    free_used,         \* history: how many of them were freely chosen submissions
    running            \* history: per-address balance kept by ApplyBlock on every append

vars == <<difficulty, chain, transaction_pool, lock, pc, req, ret, transactions, entry, admitted, free_used, running>>

Loop == "loop"
Handlers == {"h1", "h2"}
Tasks == Handlers \cup {Loop}

NoTx == [from |-> "", to |-> "", amount |-> 0, timestamp |-> 0, signature |-> EmptySignature]
NoReq == [kind |-> "none", tx |-> NoTx, address |-> "", miner |-> "",
          block |-> <<>>, previous_hash |-> EmptyString, position |-> 0]
NoRet == [op |-> "none", success |-> FALSE, block |-> <<>>, balance |-> 0, amount |-> 0, message |-> "",
          verdicts |-> <<>>, heights |-> <<>>]
NoEntry == [active |-> FALSE, chain |-> <<>>, pool |-> <<>>]

Rest(p) == IF p = Loop THEN "sleep" ELSE "idle"

\* mutant: the lock is handed out while it is held
can_lock_always == TRUE

\* blockchain.lock() returns only when no task holds the guard
can_lock == lock = "free"

\* secp.generate_keypair(&mut rand::thread_rng()): a key no block was mined with
NextFreshKey ==
    FreshKeys[1 + Cardinality({i \in DOMAIN chain : \E j \in DOMAIN FreshKeys : chain[i].miner = FreshKeys[j]})]

\* --------------------------------------------------------------- requests
\* what a caller may put in the signature field of a request: nothing, the
\* sender key's signature, another key's, or a signature over another message
Signatures(from, to, amount, ts) ==
    { EmptySignature,
      Sign("alice", <<from, to, amount, ts>>),
      Sign("mallory", <<from, to, amount, ts>>),
      Sign("alice", <<from, to, amount + 1, ts>>) }

SubmitInputs ==
    UNION { { [from |-> f, to |-> t, amount |-> a, timestamp |-> ts, signature |-> s] :
                s \in Signatures(f, t, a, ts) } :
            f \in Senders, t \in Recipients, a \in Amounts, ts \in Times }

\* the caller sends again the transaction at the pool's tail
Resubmission(tx) == transaction_pool # <<>> /\ tx = transaction_pool[Len(transaction_pool)]

\* a submission the bounds allow
Submittable(tx) ==
    /\ Len(transaction_pool) < PoolCap
    /\ free_used < MaxVaried \/ Resubmission(tx)

\* the addresses balances are asked for and faucet funds are requested for
BalanceQueries == {"alice", FAUCET_MOCKCHAIN_ADDRESS}
FaucetTargets == {"alice", "bob"}

\* ------------------------------------------------------------------ Init
\* Blockchain::new: the genesis block is generated, the pool is empty
Init ==
    /\ difficulty \in 0..MaxDifficulty
    /\ \E now \in Times : chain = <<generate_block(difficulty, 0, <<>>, GenesisSentinel, now)>>
    /\ transaction_pool = <<>>
    /\ lock = "free"
    /\ pc = [p \in Tasks |-> Rest(p)]
    /\ req = [p \in Tasks |-> NoReq]
    /\ ret = [p \in Tasks |-> NoRet]
    /\ transactions = [p \in Tasks |-> <<>>]
    /\ entry = NoEntry
    /\ admitted = <<>>
    /\ free_used = 0
    /\ running = [a \in AllAddresses |-> ApplyBlock(0, chain[1], a)]

\* --------------------------------------------------------------- actions
\* a request handler gets the lock: self.blockchain.lock()
Locked(h, r) ==
    /\ pc[h] = "idle"
    /\ can_lock
    /\ lock' = h
    /\ pc' = [pc EXCEPT ![h] = r.kind]
    /\ req' = [req EXCEPT ![h] = r]
    /\ UNCHANGED <<difficulty, chain, transaction_pool, ret, transactions, admitted, free_used, running>>

\* submit_transaction up to the lock
CallSubmit(h) ==
    /\ pc[h] = "idle"
    /\ can_lock
    /\ \E tx \in SubmitInputs :
         /\ Submittable(tx)
         /\ Locked(h, [NoReq EXCEPT !.kind = "submit", !.tx = tx])
    /\ UNCHANGED entry

\* get_balance up to the lock
CallBalance(h) ==
    /\ \E a \in BalanceQueries : Locked(h, [NoReq EXCEPT !.kind = "balance", !.address = a])
    /\ UNCHANGED entry

\* request_faucet up to the lock: the faucet transaction is built
CallFaucet(h) ==
    /\ Len(chain) < MaxChain
    /\ Len(transaction_pool) < PoolCap
    /\ \E a \in FaucetTargets, now \in Times :
         Locked(h, [NoReq EXCEPT !.kind = "faucet", !.address = a,
                      !.tx = [from |-> FAUCET_MOCKCHAIN_ADDRESS, to |-> a, amount |-> faucet_amount,
                              timestamp |-> now, signature |-> EmptySignature]])
    /\ UNCHANGED entry

\* a direct call of the public Blockchain::mine_pending_transactions, under the lock
CallMine(h) ==
    /\ Len(chain) < MaxChain \/ transaction_pool = <<>>
    /\ Locked(h, [NoReq EXCEPT !.kind = "mine", !.miner = "m1"])
    /\ entry' = [active |-> TRUE, chain |-> chain, pool |-> transaction_pool]

\* submit_transaction: chain.add_transaction(transaction)
Submit(h) ==
    /\ pc[h] = "submit"
    /\ \E r \in {add_transaction(chain, transaction_pool, req[h].tx)} :
           /\ transaction_pool' = r.pool
           /\ ret' = [ret EXCEPT ![h] = [NoRet EXCEPT !.op = "add_transaction", !.success = r.success]]
           /\ admitted' = IF r.success THEN Append(admitted, req[h].tx) ELSE admitted
           /\ free_used' = IF r.success /\ ~Resubmission(req[h].tx) THEN free_used + 1 ELSE free_used
    /\ pc' = [pc EXCEPT ![h] = "done"]
    /\ UNCHANGED <<difficulty, chain, lock, req, transactions, entry, running>>

\* mutant: pending credits in the pool are counted
BalanceWithPending(h) ==
    /\ pc[h] = "balance"
    /\ ret' = [ret EXCEPT ![h] = [NoRet EXCEPT !.op = "get_balance",
                 !.balance = get_balance(chain, req[h].address) + CreditsIn(transaction_pool, req[h].address)]]
    /\ pc' = [pc EXCEPT ![h] = "done"]
    /\ UNCHANGED <<difficulty, chain, transaction_pool, lock, req, transactions, entry, admitted, free_used, running>>

\* get_balance: chain.get_balance(&address)
Balance(h) ==
    /\ pc[h] = "balance"
    /\ ret' = [ret EXCEPT ![h] = [NoRet EXCEPT !.op = "get_balance", !.balance = get_balance(chain, req[h].address)]]
    /\ pc' = [pc EXCEPT ![h] = "done"]
    /\ UNCHANGED <<difficulty, chain, transaction_pool, lock, req, transactions, entry, admitted, free_used, running>>

\* mutant: the guard is dropped between add_transaction and mining
FaucetAddReleasing(h) ==
    /\ pc[h] = "faucet"
    /\ \E r \in {add_transaction(chain, transaction_pool, req[h].tx)} :
           /\ transaction_pool' = r.pool
           /\ ret' = [ret EXCEPT ![h] = [NoRet EXCEPT !.op = "add_transaction", !.success = r.success]]
           /\ admitted' = IF r.success THEN Append(admitted, req[h].tx) ELSE admitted
           /\ entry' = [active |-> TRUE, chain |-> chain, pool |-> r.pool]
    /\ req' = [req EXCEPT ![h].miner = NextFreshKey]
    /\ pc' = [pc EXCEPT ![h] = "mine"]
    /\ lock' = "free"
    /\ UNCHANGED <<difficulty, chain, transactions, free_used, running>>

\* request_faucet up to the call of mine_pending_transactions:
\* add_transaction(faucet transaction), then a fresh faucet_key
FaucetAdd(h) ==
    /\ pc[h] = "faucet"
    /\ \E r \in {add_transaction(chain, transaction_pool, req[h].tx)} :
           /\ transaction_pool' = r.pool
           /\ ret' = [ret EXCEPT ![h] = [NoRet EXCEPT !.op = "add_transaction", !.success = r.success]]
           /\ admitted' = IF r.success THEN Append(admitted, req[h].tx) ELSE admitted
           /\ entry' = [active |-> TRUE, chain |-> chain, pool |-> r.pool]
    /\ req' = [req EXCEPT ![h].miner = NextFreshKey]
    /\ pc' = [pc EXCEPT ![h] = "mine"]
    /\ UNCHANGED <<difficulty, chain, lock, transactions, free_used, running>>

\* where mine_pending_transactions returns to
AfterMine(p) == IF req[p].kind = "faucet" THEN "respond" ELSE "done"

\* mine_pending_transactions on an empty pool: return None
MineEmpty(p) ==
    /\ pc[p] = "mine"
    /\ is_empty(transaction_pool)
    /\ ret' = [ret EXCEPT ![p] = [@ EXCEPT !.op = "mine_pending_transactions", !.block = <<>>]]
    /\ pc' = [pc EXCEPT ![p] = AfterMine(p)]
    /\ UNCHANGED <<difficulty, chain, transaction_pool, lock, req, transactions, entry, admitted, free_used, running>>

\* mine_pending_transactions: the pool is drained into the local batch
MineDrain(p) ==
    /\ pc[p] = "mine"
    /\ ~is_empty(transaction_pool)
    /\ \E d \in {drain(transaction_pool)} :
           /\ transactions' = [transactions EXCEPT ![p] = d.taken]
           /\ transaction_pool' = d.rest
    /\ pc' = [pc EXCEPT ![p] = "drained"]
    /\ UNCHANGED <<difficulty, chain, lock, req, ret, entry, admitted, free_used, running>>

\* mine_pending_transactions: self.chain.last()?, generate_block, the miner
\* is stamped, the block is pushed and returned
MineAppend(p) ==
    /\ pc[p] = "drained"
    /\ IF chain = <<>>
       THEN /\ ret' = [ret EXCEPT ![p] = [@ EXCEPT !.op = "mine_pending_transactions", !.block = <<>>]]
            /\ UNCHANGED <<chain, running>>
       ELSE \E now \in Times :
              \E block \in {mined_block(difficulty, chain[Len(chain)], transactions[p], req[p].miner, now)} :
                  /\ chain' = push(chain, block)
                  /\ ret' = [ret EXCEPT ![p] = [@ EXCEPT !.op = "mine_pending_transactions", !.block = <<block>>]]
                  /\ running' = [a \in AllAddresses |-> ApplyBlock(running[a], block, a)]
    /\ transactions' = [transactions EXCEPT ![p] = <<>>]
    /\ pc' = [pc EXCEPT ![p] = AfterMine(p)]
    /\ UNCHANGED <<difficulty, transaction_pool, lock, req, entry, admitted, free_used>>

\* request_faucet: the FaucetResponse built from what mining returned
FaucetRespond(h) ==
    /\ pc[h] = "respond"
    /\ ret' = [ret EXCEPT ![h] =
                 IF @.block # <<>>
                 THEN [@ EXCEPT !.op = "request_faucet", !.success = TRUE, !.amount = faucet_amount,
                                !.message = "Faucet funds sent successfully"]
                 ELSE [@ EXCEPT !.op = "request_faucet",
                                !.amount = IF ret[h].success THEN faucet_amount ELSE 0,
                                !.message = IF ret[h].success THEN "Faucet funds queued for next block"
                                            ELSE "Failed to process faucet request"]]
    /\ pc' = [pc EXCEPT ![h] = "done"]
    /\ UNCHANGED <<difficulty, chain, transaction_pool, lock, req, transactions, entry, admitted, free_used, running>>

\* mutant: the loop keeps its guard over the sleep
UnlockHandlersOnly(p) ==
    /\ pc[p] = "done"
    /\ lock' = IF lock = p /\ p # Loop THEN "free" ELSE lock
    /\ pc' = [pc EXCEPT ![p] = Rest(p)]
    /\ req' = [req EXCEPT ![p] = NoReq]
    /\ ret' = [ret EXCEPT ![p] = NoRet]
    /\ entry' = NoEntry
    /\ UNCHANGED <<difficulty, chain, transaction_pool, transactions, admitted, free_used, running>>

\* the MutexGuard is dropped: the handler returns, the loop goes to sleep
Unlock(p) ==
    /\ pc[p] = "done"
    /\ lock' = IF lock = p THEN "free" ELSE lock
    /\ pc' = [pc EXCEPT ![p] = Rest(p)]
    /\ req' = [req EXCEPT ![p] = NoReq]
    /\ ret' = [ret EXCEPT ![p] = NoRet]
    /\ entry' = NoEntry
    /\ UNCHANGED <<difficulty, chain, transaction_pool, transactions, admitted, free_used, running>>

\* ProofOfWork::start: the loop wakes up and takes the lock
LoopLock ==
    /\ pc[Loop] = "sleep"
    /\ can_lock
    /\ Len(chain) < MaxChain
    /\ lock' = Loop
    /\ pc' = [pc EXCEPT ![Loop] = "check"]
    /\ req' = [req EXCEPT ![Loop] = [NoReq EXCEPT !.kind = "loop", !.miner = LoopKey]]
    /\ UNCHANGED <<difficulty, chain, transaction_pool, ret, transactions, entry, admitted, free_used, running>>

\* mutant: the loop never finds the pool long enough
LoopCheckNever ==
    /\ pc[Loop] = "check"
    /\ pc' = [pc EXCEPT ![Loop] = "done"]
    /\ UNCHANGED <<difficulty, chain, transaction_pool, lock, req, ret, transactions, entry, admitted, free_used, running>>

\* mutant: the loop mines at POOL_THRESHOLD pending transactions already
LoopCheckAtLeast ==
    /\ pc[Loop] = "check"
    /\ IF Len(transaction_pool) >= POOL_THRESHOLD
       THEN /\ pc' = [pc EXCEPT ![Loop] = "mine"]
            /\ entry' = [active |-> TRUE, chain |-> chain, pool |-> transaction_pool]
       ELSE /\ pc' = [pc EXCEPT ![Loop] = "done"]
            /\ UNCHANGED entry
    /\ UNCHANGED <<difficulty, chain, transaction_pool, lock, req, ret, transactions, admitted, free_used, running>>

\* ProofOfWork::start: if chain.transaction_pool.len() > 10 { mine }
LoopCheck ==
    /\ pc[Loop] = "check"
    /\ IF Len(transaction_pool) > POOL_THRESHOLD
       THEN /\ pc' = [pc EXCEPT ![Loop] = "mine"]
            /\ entry' = [active |-> TRUE, chain |-> chain, pool |-> transaction_pool]
       ELSE /\ pc' = [pc EXCEPT ![Loop] = "done"]
            /\ UNCHANGED entry
    /\ UNCHANGED <<difficulty, chain, transaction_pool, lock, req, ret, transactions, admitted, free_used, running>>

Next ==
    \/ \E h \in Handlers : CallSubmit(h)
    \/ \E h \in Handlers : CallBalance(h)
    \/ \E h \in Handlers : CallFaucet(h)
    \/ \E h \in Handlers : CallMine(h)
    \/ \E h \in Handlers : Submit(h)
    \/ \E h \in Handlers : Balance(h)
    \/ \E h \in Handlers : FaucetAdd(h)
    \/ \E h \in Handlers : FaucetRespond(h)
    \/ \E p \in Tasks : MineEmpty(p)
    \/ \E p \in Tasks : MineDrain(p)
    \/ \E p \in Tasks : MineAppend(p)
    \/ \E p \in Tasks : Unlock(p)
    \/ LoopLock
    \/ LoopCheck

Spec == Init /\ [][Next]_vars

\* ------------------------------------------------------------- fairness
\* the steps of the loop's round once it holds the lock, up to the call of
\* generate_block and after it: nothing in it waits
LoopSteps == LoopCheck \/ MineEmpty(Loop) \/ MineDrain(Loop) \/ Unlock(Loop)

\* the steps of a request handler once it holds the lock, up to the call of
\* generate_block and after it: it runs to its return
HandlerSteps(h) ==
    \/ Submit(h) \/ Balance(h) \/ FaucetAdd(h) \/ FaucetRespond(h)
    \/ MineEmpty(h) \/ MineDrain(h) \/ Unlock(h)

\* generate_block terminates: weak fairness of MineAppend(p), which is
\* enabled exactly while pc[p] = "drained" and always leaves that place
GenerateTerminates(p) == []<>(pc[p] # "drained")

\* the submissions followed under fairness: transfers of 600 to bob from
\* each sender, unsigned or signed by alice
FairInputs ==
    { tx \in SubmitInputs :
        /\ tx.to = "bob" /\ tx.amount = 600
        /\ tx.signature \in {EmptySignature, Sign("alice", get_message_to_sign(tx))} }

\* submit_transaction up to the lock, for these submissions
CallSubmitFair(h) ==
    /\ pc[h] = "idle"
    /\ can_lock
    /\ \E tx \in FairInputs :
         /\ Submittable(tx)
         /\ Locked(h, [NoReq EXCEPT !.kind = "submit", !.tx = tx])
    /\ UNCHANGED entry

NextFair ==
    \/ \E h \in Handlers : CallSubmitFair(h)
    \/ \E h \in Handlers : CallBalance(h)
    \/ \E h \in Handlers : CallFaucet(h)
    \/ \E h \in Handlers : CallMine(h)
    \/ \E h \in Handlers : Submit(h)
    \/ \E h \in Handlers : Balance(h)
    \/ \E h \in Handlers : FaucetAdd(h)
    \/ \E h \in Handlers : FaucetRespond(h)
    \/ \E p \in Tasks : MineEmpty(p)
    \/ \E p \in Tasks : MineDrain(p)
    \/ \E p \in Tasks : MineAppend(p)
    \/ \E p \in Tasks : Unlock(p)
    \/ LoopLock
    \/ LoopCheck

\* The runtime keeps scheduling a task that can run (weak fairness of the
\* steps under the lock, generate_block included).  tokio's Mutex queues its
\* waiters first in, first out, so the loop, once its sleep is over, gets the
\* lock after finitely many handlers: with a lock that has no queue this is
\* strong fairness of the loop's acquisition.
FairSpec ==
    /\ Init /\ [][NextFair]_vars
    /\ SF_vars(LoopLock)
    /\ WF_vars(LoopSteps)
    /\ \A h \in Handlers : WF_vars(HandlerSteps(h))
    /\ \A p \in Tasks : GenerateTerminates(p)

\* ---------------------------------------------------------- nonce search
\* generate_block followed one iteration of its while loop at a time, for a
\* policy of any difficulty called directly; the local `block` is ret[h].block

\* the arguments generate_block is called with
SearchInputs ==
    LET tx == [from |-> FAUCET_MOCKCHAIN_ADDRESS, to |-> "alice", amount |-> faucet_amount,
               timestamp |-> 1, signature |-> EmptySignature]
        genesis == Block_new(0, <<>>, GenesisSentinel, 1)
    IN  { [index |-> 0, transactions |-> <<>>, previous_hash |-> GenesisSentinel],
          [index |-> 1, transactions |-> <<tx>>, previous_hash |-> genesis.hash],
          [index |-> 1, transactions |-> <<tx, tx>>, previous_hash |-> genesis.hash] }

\* ProofOfWork { difficulty } alone: no ledger is constructed
InitSearch ==
    /\ difficulty \in 0..MaxSearchDifficulty
    /\ chain = <<>>
    /\ transaction_pool = <<>>
    /\ lock = "free"
    /\ pc = [p \in Tasks |-> Rest(p)]
    /\ req = [p \in Tasks |-> NoReq]
    /\ ret = [p \in Tasks |-> NoRet]
    /\ transactions = [p \in Tasks |-> <<>>]
    /\ entry = NoEntry
    /\ admitted = <<>>
    /\ free_used = 0
    /\ running = [a \in AllAddresses |-> 0]

\* generate_block: let mut block = Block::new(index, transactions, previous_hash)
CallGenerate(h) ==
    /\ pc[h] = "idle"
    /\ \E in \in SearchInputs, now \in Times :
          ret' = [ret EXCEPT ![h] = [NoRet EXCEPT !.op = "generate_block",
                    !.block = <<Block_new(in.index, in.transactions, in.previous_hash, now)>>]]
    /\ pc' = [pc EXCEPT ![h] = "search"]
    /\ UNCHANGED <<difficulty, chain, transaction_pool, lock, req, transactions, entry, admitted, free_used, running>>

\* while !block.hash.starts_with(&target) { block.nonce += 1; block.hash = block.calculate_hash(); }
SearchStep(h) ==
    /\ pc[h] = "search"
    /\ ~starts_with(ret[h].block[1].hash, Zeros(difficulty))
    /\ ret[h].block[1].nonce < MaxNonce
    /\ \E b1 \in {[ret[h].block[1] EXCEPT !.nonce = @ + 1]} :
          ret' = [ret EXCEPT ![h].block = <<[b1 EXCEPT !.hash = calculate_hash(b1)]>>]
    /\ UNCHANGED <<difficulty, chain, transaction_pool, lock, pc, req, transactions, entry, admitted, free_used, running>>

\* the loop ends and the block is returned
SearchReturn(h) ==
    /\ pc[h] = "search"
    /\ starts_with(ret[h].block[1].hash, Zeros(difficulty))
    /\ pc' = [pc EXCEPT ![h] = "returned"]
    /\ UNCHANGED <<difficulty, chain, transaction_pool, lock, req, ret, transactions, entry, admitted, free_used, running>>

NextSearch ==
    \/ CallGenerate("h1")
    \/ SearchStep("h1")
    \/ SearchReturn("h1")

SpecSearch == InitSearch /\ [][NextSearch]_vars

\* ------------------------------------------------------------ validation
\* validate_block is a public method of the consensus policy that no handler
\* calls; it is exercised by a caller that holds the ledger, copies a block
\* of the chain, possibly alters the copy, and validates it.

\* the transactions of a block with one of them altered (or one slipped in)
AlteredTransactions(txs) ==
    IF txs = <<>>
    THEN <<[from |-> FAUCET_MOCKCHAIN_ADDRESS, to |-> "mallory", amount |-> faucet_amount,
            timestamp |-> 1, signature |-> EmptySignature]>>
    ELSE [txs EXCEPT ![1].to = "mallory"]

\* a copy of block b, unaltered or with one field other than hash altered
Alterations(b) ==
    { b,
      [b EXCEPT !.index = @ + 1],
      [b EXCEPT !.timestamp = @ + 1],
      [b EXCEPT !.transactions = AlteredTransactions(@)],
      [b EXCEPT !.previous_hash = b.hash],
      [b EXCEPT !.nonce = @ + 1],
      [b EXCEPT !.miner = "mallory"] }

\* the copy with block.hash = block.calculate_hash()
Rehashed(b) == [b EXCEPT !.hash = calculate_hash(b)]

\* the copies of block i of the chain a caller validates
Candidates(i) == Alterations(chain[i]) \cup { Rehashed(b) : b \in Alterations(chain[i]) }

\* the hashes a candidate made from block i is validated against: its
\* predecessor's (the sentinel for the genesis block) and the block's own
ExpectedHashes(i) == {IF i = 1 THEN GenesisSentinel ELSE chain[i - 1].hash, chain[i].hash}

\* a caller takes the lock and picks a candidate and an expected previous
\* hash; one caller at a time is followed through its validations
CallValidate(h) ==
    /\ pc[h] = "idle"
    /\ can_lock
    /\ \A g \in Handlers : pc[g] # "between"
    /\ \E i \in DOMAIN chain : \E b \in Candidates(i) : \E e \in ExpectedHashes(i) :
           Locked(h, [NoReq EXCEPT !.kind = "validate", !.block = <<b>>, !.previous_hash = e, !.position = i])
    /\ UNCHANGED entry

\* what the wall clock may read when a block of the chain is validated: the
\* time it was stamped with, or later
ClockReadings == Times \cup {MaxTime + 1}

\* mutant: the hash to compare with is recomputed from a block rebuilt with
\* Block::new, which stamps the current time
ValidateRebuilding(h) ==
    /\ pc[h] = "validate"
    /\ Len(ret[h].verdicts) < MaxValidations
    /\ \E now \in ClockReadings :
         \E b \in {req[h].block[1]} :
           ret' = [ret EXCEPT ![h] = [@ EXCEPT !.op = "validate_block",
                     !.verdicts = Append(@, /\ b.previous_hash = req[h].previous_hash
                                            /\ b.hash = calculate_hash([b EXCEPT !.timestamp = now])
                                            /\ starts_with(b.hash, Zeros(difficulty))),
                     !.heights = Append(@, Len(chain))]]
    /\ UNCHANGED <<difficulty, chain, transaction_pool, lock, pc, req, transactions, entry, admitted, free_used, running>>

\* consensus.validate_block(&block, &previous_hash): the verdict is noted,
\* with the length the chain has at the call
Validate(h) ==
    /\ pc[h] = "validate"
    /\ Len(ret[h].verdicts) < MaxValidations
    /\ ret' = [ret EXCEPT ![h] = [@ EXCEPT !.op = "validate_block",
                 !.verdicts = Append(@, validate_block(difficulty, req[h].block[1], req[h].previous_hash)),
                 !.heights = Append(@, Len(chain))]]
    /\ UNCHANGED <<difficulty, chain, transaction_pool, lock, pc, req, transactions, entry, admitted, free_used, running>>

\* the caller drops the guard between two validations and keeps its copy of
\* the block (a Block is Clone; the policy is reached through the guard only)
ValidatePause(h) ==
    /\ pc[h] = "validate"
    /\ ret[h].verdicts # <<>>
    /\ Len(ret[h].verdicts) < MaxValidations
    /\ lock' = IF lock = h THEN "free" ELSE lock
    /\ pc' = [pc EXCEPT ![h] = "between"]
    /\ UNCHANGED <<difficulty, chain, transaction_pool, req, ret, transactions, entry, admitted, free_used, running>>

\* the caller takes the lock again to validate the same copy once more
ValidateResume(h) ==
    /\ pc[h] = "between"
    /\ can_lock
    /\ lock' = h
    /\ pc' = [pc EXCEPT ![h] = "validate"]
    /\ UNCHANGED <<difficulty, chain, transaction_pool, req, ret, transactions, entry, admitted, free_used, running>>

\* the caller is done validating
ValidateReturn(h) ==
    /\ pc[h] = "validate"
    /\ ret[h].verdicts # <<>>
    /\ pc' = [pc EXCEPT ![h] = "done"]
    /\ UNCHANGED <<difficulty, chain, transaction_pool, lock, req, ret, transactions, entry, admitted, free_used, running>>

\* faucet requests build the chain, callers validate copies of its blocks
NextValidate ==
    \/ \E h \in Handlers : CallFaucet(h)
    \/ \E h \in Handlers : FaucetAdd(h)
    \/ \E h \in Handlers : MineDrain(h)
    \/ \E h \in Handlers : MineAppend(h)
    \/ \E h \in Handlers : FaucetRespond(h)
    \/ \E h \in Handlers : CallValidate(h)
    \/ \E h \in Handlers : Validate(h)
    \/ \E h \in Handlers : ValidatePause(h)
    \/ \E h \in Handlers : ValidateResume(h)
    \/ \E h \in Handlers : ValidateReturn(h)
    \/ \E h \in Handlers : Unlock(h)

SpecValidate == Init /\ [][NextValidate]_vars

\* ------------------------------------------------------ amounts at u64
\* The ledger with every amount at its full width: callers supply any u64,
\* and an addition that leaves the range panics where overflow checks are
\* compiled in and wraps where they are not.
OverflowPanic == "attempt to add with overflow"

\* what an addition that overflowed does, by build
Outcomes(overflow) == IF overflow THEN {"panic", "wrap"} ELSE {"exact"}

\* the amounts callers supply
WideAmounts == {U64(600), U64_MAX}

\* the transactions callers submit: unsigned ones in the faucet sentinel's
\* name, and alice's, signed by her or unsigned
WideInputs ==
    UNION { { [from |-> f, to |-> t, amount |-> a, timestamp |-> ts, signature |-> sg] :
                sg \in IF f = FAUCET_MOCKCHAIN_ADDRESS THEN {EmptySignature}
                       ELSE {EmptySignature, Sign(f, <<f, t, a, ts>>)} } :
            f \in {FAUCET_MOCKCHAIN_ADDRESS, "alice"}, t \in {"alice", "bob"}, a \in WideAmounts, ts \in Times }

\* submit_transaction up to the lock, the amount a u64
CallSubmitWide(h) ==
    /\ pc[h] = "idle"
    /\ can_lock
    /\ Len(transaction_pool) < MaxWidePool
    /\ \E tx \in WideInputs : Locked(h, [NoReq EXCEPT !.kind = "submit", !.tx = tx])
    /\ UNCHANGED entry

\* request_faucet up to the lock: the faucet transaction is built, amount 1000u64
CallFaucetWide(h) ==
    /\ Len(chain) < MaxChain
    /\ Len(transaction_pool) < MaxWidePool
    /\ \E a \in FaucetTargets, now \in Times :
         Locked(h, [NoReq EXCEPT !.kind = "faucet", !.address = a,
                      !.tx = [from |-> FAUCET_MOCKCHAIN_ADDRESS, to |-> a, amount |-> U64(faucet_amount),
                              timestamp |-> now, signature |-> EmptySignature]])
    /\ UNCHANGED entry

\* submit_transaction: chain.add_transaction(transaction); the balance check
\* inside may overflow
SubmitWide(h) ==
    /\ pc[h] = "submit"
    /\ \E r \in {add_transaction_u64(chain, transaction_pool, req[h].tx)} :
         \E outcome \in Outcomes(r.overflow) :
           IF outcome = "panic"
           THEN /\ ret' = [ret EXCEPT ![h] = [NoRet EXCEPT !.op = "panic", !.message = OverflowPanic]]
                /\ UNCHANGED <<transaction_pool, admitted>>
           ELSE /\ transaction_pool' = r.pool
                /\ ret' = [ret EXCEPT ![h] = [NoRet EXCEPT !.op = "add_transaction", !.success = r.success]]
                /\ admitted' = IF r.success THEN Append(admitted, req[h].tx) ELSE admitted
    /\ pc' = [pc EXCEPT ![h] = "done"]
    /\ UNCHANGED <<difficulty, chain, lock, req, transactions, entry, free_used, running>>

\* get_balance: chain.get_balance(&address) on u64
BalanceWide(h) ==
    /\ pc[h] = "balance"
    /\ \E r \in {get_balance_u64(chain, req[h].address)} :
         \E outcome \in Outcomes(r.overflow) :
           ret' = [ret EXCEPT ![h] =
                     IF outcome = "panic"
                     THEN [NoRet EXCEPT !.op = "panic", !.message = OverflowPanic]
                     ELSE [NoRet EXCEPT !.op = "get_balance", !.balance = r.balance]]
    /\ pc' = [pc EXCEPT ![h] = "done"]
    /\ UNCHANGED <<difficulty, chain, transaction_pool, lock, req, transactions, entry, admitted, free_used, running>>

\* request_faucet up to the call of mine_pending_transactions, on u64
FaucetAddWide(h) ==
    /\ pc[h] = "faucet"
    /\ \E r \in {add_transaction_u64(chain, transaction_pool, req[h].tx)} :
           /\ transaction_pool' = r.pool
           /\ ret' = [ret EXCEPT ![h] = [NoRet EXCEPT !.op = "add_transaction", !.success = r.success]]
           /\ admitted' = IF r.success THEN Append(admitted, req[h].tx) ELSE admitted
           /\ entry' = [active |-> TRUE, chain |-> chain, pool |-> r.pool]
    /\ req' = [req EXCEPT ![h].miner = NextFreshKey]
    /\ pc' = [pc EXCEPT ![h] = "mine"]
    /\ UNCHANGED <<difficulty, chain, lock, transactions, free_used, running>>

\* mine_pending_transactions from generate_block on, transactions with u64 amounts
MineAppendWide(p) ==
    /\ pc[p] = "drained"
    /\ IF chain = <<>>
       THEN /\ ret' = [ret EXCEPT ![p] = [@ EXCEPT !.op = "mine_pending_transactions", !.block = <<>>]]
            /\ UNCHANGED chain
       ELSE \E now \in Times :
              \E block \in {mined_block_u64(difficulty, chain[Len(chain)], transactions[p], req[p].miner, now)} :
                  /\ chain' = push(chain, block)
                  /\ ret' = [ret EXCEPT ![p] = [@ EXCEPT !.op = "mine_pending_transactions", !.block = <<block>>]]
    /\ transactions' = [transactions EXCEPT ![p] = <<>>]
    /\ pc' = [pc EXCEPT ![p] = AfterMine(p)]
    /\ UNCHANGED <<difficulty, transaction_pool, lock, req, entry, admitted, free_used, running>>

NextWide ==
    \/ \E h \in Handlers : CallSubmitWide(h)
    \/ \E h \in Handlers : CallBalance(h)
    \/ \E h \in Handlers : CallFaucetWide(h)
    \/ \E h \in Handlers : CallMine(h)
    \/ \E h \in Handlers : SubmitWide(h)
    \/ \E h \in Handlers : BalanceWide(h)
    \/ \E h \in Handlers : FaucetAddWide(h)
    \/ \E h \in Handlers : FaucetRespond(h)
    \/ \E h \in Handlers : MineEmpty(h)
    \/ \E h \in Handlers : MineDrain(h)
    \/ \E h \in Handlers : MineAppendWide(h)
    \/ \E h \in Handlers : Unlock(h)

SpecWide == Init /\ [][NextWide]_vars

\* ---------------------------------------------------------------- claims
\* the transactions of the chain's blocks, in chain order
Committed(c) == AllTransactions(c)

\* C1: the chain is never empty; the genesis block has index 0 and the
\* sentinel "0" as previous_hash; every later block has its position as
\* index and its predecessor's hash as previous_hash.
C1_ChainLinkage ==
    /\ chain # <<>>
    /\ chain[1].index = 0
    /\ chain[1].previous_hash = GenesisSentinel
    /\ \A i \in 2..Len(chain) :
         /\ chain[i].index = i - 1
         /\ chain[i].previous_hash = chain[i - 1].hash

\* C1 witness: three blocks, produced by a direct call or the loop and by a faucet request
C1_Witness ==
    /\ Len(chain) >= 3
    /\ \E i, j \in 2..Len(chain) : chain[i].miner \in {"m1", LoopKey} /\ chain[j].miner = FreshKeys[1]

\* the previous_hash block i of the chain is validated against
ExpectedPrevious(i) == IF i = 1 THEN GenesisSentinel ELSE chain[i - 1].hash

\* C2: under difficulty d every block of the chain, miner stamped, has a
\* hash beginning with d '0' characters and passes validate_block against
\* its predecessor's hash.
C2_ProofOfWork ==
    \A i \in 1..Len(chain) :
        /\ starts_with(chain[i].hash, Zeros(difficulty))
        /\ validate_block(difficulty, chain[i], ExpectedPrevious(i))

\* C2 witness: a stamped block whose nonce search took steps, under difficulty >= 1
C2_Witness ==
    /\ difficulty >= 1
    /\ \E i \in 2..Len(chain) : chain[i].nonce > 0 /\ chain[i].miner # "" /\ chain[i].transactions # <<>>

\* signature verification fails: undecodable address, malformed key,
\* malformed signature, or a signature that is not the sender's over this
\* transaction's message
SignatureFails(tx) ==
    \/ tx.from \notin UserKeys \cup MinerKeys
    \/ ~tx.signature.compact
    \/ tx.signature # Sign(tx.from, <<tx.from, tx.to, tx.amount, tx.timestamp>>)

\* C3: add_transaction of a non-faucet transaction returns false and leaves
\* pool and chain unchanged when the signature fails or the sender's balance
\* is below the amount; it returns true only when both checks pass, and then
\* the transaction is the pool's new tail.
C3_RejectWithoutMutation ==
    [][\A h \in Handlers :
         (pc[h] = "submit" /\ pc'[h] = "done" /\ req[h].tx.from # FAUCET_MOCKCHAIN_ADDRESS) =>
            LET tx == req[h].tx
                fails == SignatureFails(tx) \/ get_balance(chain, tx.from) < tx.amount
            IN  /\ chain' = chain
                /\ fails => ~ret'[h].success /\ transaction_pool' = transaction_pool
                /\ ret'[h].success => ~fails /\ transaction_pool' = Append(transaction_pool, tx)
                /\ ret'[h].success \/ transaction_pool' = transaction_pool]_vars

\* C3 witness: a validly signed transfer of a funded sender was rejected for
\* insufficient balance
C3_Witness ==
    \E h \in Handlers :
        /\ pc[h] = "done" /\ ret[h].op = "add_transaction" /\ ~ret[h].success
        /\ req[h].tx.from = "alice" /\ ~SignatureFails(req[h].tx)
        /\ get_balance(chain, "alice") > 0
        /\ get_balance(chain, "alice") < req[h].tx.amount

\* C4: add_transaction of a transaction from the faucet sentinel returns
\* true, appends exactly that transaction to the pool's tail and leaves the
\* chain unchanged, for any signature, amount, recipient and ledger state.
C4_FaucetBypass ==
    [][\A h \in Handlers :
         (pc[h] \in {"submit", "faucet"} /\ pc'[h] # pc[h] /\ req[h].tx.from = FAUCET_MOCKCHAIN_ADDRESS) =>
            /\ ret'[h].success
            /\ transaction_pool' = Append(transaction_pool, req[h].tx)
            /\ chain' = chain]_vars

\* C4 witness: a faucet-sentinel submission carrying a signature was admitted
\* behind other pending transactions
C4_Witness ==
    \E h \in Handlers :
        /\ pc[h] = "done" /\ ret[h].op = "add_transaction" /\ ret[h].success
        /\ req[h].tx.from = FAUCET_MOCKCHAIN_ADDRESS /\ req[h].tx.signature.compact
        /\ Len(transaction_pool) >= 2
        /\ transaction_pool[Len(transaction_pool)] = req[h].tx

\* C5: mine_pending_transactions entered with an empty pool returns None and
\* leaves chain and pool as they were.
C5_EmptyPoolNoOp ==
    \A p \in Tasks :
        (ret[p].op = "mine_pending_transactions" /\ entry.active /\ entry.pool = <<>>) =>
            /\ ret[p].block = <<>>
            /\ chain = entry.chain
            /\ transaction_pool = <<>>

\* C5 witness: the call returned on an empty pool with blocks already mined
C5_Witness ==
    \E p \in Tasks :
        /\ ret[p].op = "mine_pending_transactions" /\ entry.active /\ entry.pool = <<>>
        /\ pc[p] = "done" /\ Len(chain) >= 2

\* C6: mine_pending_transactions entered with a non-empty pool appends one
\* block and returns it: its transactions are the whole pool at entry in
\* FIFO order, its index the old tail's plus one, its previous_hash the old
\* tail's hash, its miner the given key; the pool is empty afterwards.
C6_MineAppendsOneBlock ==
    \A p \in Tasks :
        (ret[p].op = "mine_pending_transactions" /\ entry.active /\ entry.pool # <<>>) =>
            /\ Len(ret[p].block) = 1
            /\ LET block == ret[p].block[1]
                   tail == entry.chain[Len(entry.chain)]
               IN  /\ block.transactions = entry.pool
                   /\ block.index = tail.index + 1
                   /\ block.previous_hash = tail.hash
                   /\ block.miner = req[p].miner
                   /\ chain = Append(entry.chain, block)
                   /\ chain[Len(chain)] = block
            /\ Len(chain) = Len(entry.chain) + 1
            /\ transaction_pool = <<>>

\* C6 witness: a block of several transactions was returned to a handler
C6_Witness ==
    \E p \in Handlers :
        /\ ret[p].op = "mine_pending_transactions" /\ entry.active
        /\ Len(entry.pool) >= 3 /\ Len(ret[p].block) = 1
        /\ entry.pool[1] # entry.pool[3]

\* the batch a block production in progress has drained and not yet appended
InFlight == IF \E p \in Tasks : pc[p] = "drained"
            THEN transactions[CHOOSE p \in Tasks : pc[p] = "drained"]
            ELSE <<>>

\* C7: the transactions of the chain's blocks in chain order, followed by
\* the pool, are the admitted transactions in admission order, each exactly
\* once (during a block production the drained batch sits between the two).
C7_FifoExactlyOnce ==
    /\ Committed(chain) \o InFlight \o transaction_pool = admitted
    /\ (\A p \in Tasks : pc[p] # "drained") => Committed(chain) \o transaction_pool = admitted

\* C7 witness: two blocks with transactions, the later one holding a
\* submission, its resubmission and a faucet credit in that order
C7_Witness ==
    /\ lock = "free"
    /\ Len(chain) >= 3 /\ chain[2].transactions # <<>>
    /\ Len(chain[3].transactions) >= 3
    /\ chain[3].transactions[1] = chain[3].transactions[2]
    /\ chain[3].transactions[2] # chain[3].transactions[3]
    /\ chain[3].transactions[1].from # FAUCET_MOCKCHAIN_ADDRESS

\* what address a gains and loses along the chain, in replay order: +amount
\* for a transaction to a, -amount for one from a (the credit first when
\* both), +50 after each block a mined
RECURSIVE TxEvents(_, _)
TxEvents(txs, a) ==
    IF txs = <<>> THEN <<>>
    ELSE (IF Head(txs).to = a THEN <<Head(txs).amount>> ELSE <<>>)
         \o (IF Head(txs).from = a THEN <<0 - Head(txs).amount>> ELSE <<>>)
         \o TxEvents(Tail(txs), a)

RECURSIVE ChainEvents(_, _)
ChainEvents(c, a) ==
    IF c = <<>> THEN <<>>
    ELSE TxEvents(Head(c).transactions, a)
         \o (IF Head(c).miner = a THEN <<MINING_REWARD>> ELSE <<>>)
         \o ChainEvents(Tail(c), a)

RECURSIVE SumSeq(_)
SumSeq(q) == IF q = <<>> THEN 0 ELSE Head(q) + SumSeq(Tail(q))

Larger(x, y) == IF x >= y THEN x ELSE y

\* the largest net gain over the events after some cut point (none: 0)
RECURSIVE BestTail(_)
BestTail(events) ==
    IF events = <<>> THEN 0 ELSE Larger(SumSeq(events), BestTail(Tail(events)))

Credits(a) == CreditsIn(Committed(chain), a)
Debits(a) == DebitsIn(Committed(chain), a)
Rewards(a) == MINING_REWARD * Cardinality({i \in DOMAIN chain : chain[i].miner = a})

\* the claimed value: credits minus debits floored at zero, plus the rewards
NetBalance(a) == (IF Credits(a) >= Debits(a) THEN Credits(a) - Debits(a) ELSE 0) + Rewards(a)

\* C8 as claimed: get_balance(a) is credits to a minus debits from a over the
\* whole chain, floored at zero, plus 50 per block a mined.
C8_BalanceIsNet == \A a \in AllAddresses : get_balance(chain, a) = NetBalance(a)

\* C8 amended: the floor applies at every single debit in chain order, so
\* get_balance(a) is the largest net gain (credits + rewards - debits) over
\* the part of a's history after some cut point; it is the claimed value
\* whenever the whole history is such a part (no debit was cut short).
C8_BalanceIsBestTail ==
    \A a \in AllAddresses :
        \A events \in {ChainEvents(chain, a)} :
            \A balance \in {get_balance(chain, a)} :
                /\ balance = BestTail(events)
                /\ balance = SumSeq(events) => balance = Credits(a) + Rewards(a) - Debits(a)

\* C8 witness: a debit was cut short at zero and a later credit arrived, so
\* the balance is above the claimed value
C8_Witness ==
    \E a \in AllAddresses :
        /\ get_balance(chain, a) > NetBalance(a)
        /\ Debits(a) > 0

\* C9: the balance kept per address by applying each appended block once
\* (its transactions in order, then the reward) equals get_balance's replay
\* of the whole chain, for every address.
C9_IncrementalIsReplay == \A a \in AllAddresses : running[a] = get_balance(chain, a)

\* C9 witness: three blocks, two rewarded miners, a sender whose debit was
\* cut short and a recipient with funds
C9_Witness ==
    /\ Len(chain) >= 3
    /\ running["m1"] = MINING_REWARD /\ running[FreshKeys[1]] = MINING_REWARD
    /\ Debits("alice") > Credits("alice")
    /\ running["alice"] = 0 /\ running["bob"] > 0

\* a task is inside the critical section
InLock(p) == pc[p] # Rest(p)

\* C10: at most one task is inside the lock, and it is the holder; at most
\* one block production is in progress; block indexes are distinct and every
\* admitted transaction is in exactly one place; no add_transaction or
\* get_balance runs while a batch is drained and not yet appended.
C10_MutualExclusion ==
    /\ \A p, q \in Tasks : InLock(p) /\ InLock(q) => p = q
    /\ \A p \in Tasks : InLock(p) <=> lock = p
    /\ Cardinality({p \in Tasks : pc[p] \in {"mine", "drained"}}) <= 1
    /\ \A i, j \in DOMAIN chain : chain[i].index = chain[j].index => i = j
    /\ Len(Committed(chain)) + Len(InFlight) + Len(transaction_pool) = Len(admitted)
    /\ \A p \in Tasks : pc[p] \in {"submit", "balance", "faucet"} =>
          /\ \A q \in Tasks : transactions[q] = <<>>
          /\ Len(Committed(chain)) + Len(transaction_pool) = Len(admitted)

\* C10 witness: the loop has drained a batch and not yet appended the block,
\* with blocks of handlers already in the chain
C10_Witness ==
    /\ pc[Loop] = "drained" /\ lock = Loop
    /\ Len(transactions[Loop]) > POOL_THRESHOLD
    /\ transaction_pool = <<>>
    /\ Len(chain) >= 2
    /\ \A h \in Handlers : pc[h] = "idle"

\* C11: every step leaves the chain as it was or extends it: the chain
\* before the step is a prefix of the chain after it, block for block and
\* field for field (miner included).
C11_AppendOnly ==
    [][/\ Len(chain') >= Len(chain)
       /\ SubSeq(chain', 1, Len(chain)) = chain]_vars

\* C11 witness: a block was just appended behind an earlier mined block,
\* which is still in its place with its miner
C11_Witness ==
    \E p \in Tasks :
        /\ pc[p] \in {"done", "respond"} /\ entry.active
        /\ Len(entry.chain) >= 2 /\ entry.chain[2].miner # ""
        /\ Len(chain) = Len(entry.chain) + 1
        /\ ret[p].block = <<chain[Len(chain)]>>
        /\ SubSeq(chain, 1, Len(entry.chain)) = entry.chain

\* a validation in progress or finished: the block validated, the chain
\* block it was copied from, and the first verdict
Validated(h) == ret[h].op = "validate_block" /\ ret[h].verdicts # <<>>
LinkHolds(h) == req[h].block[1].previous_hash = req[h].previous_hash
HashHolds(h) == req[h].block[1].hash = calculate_hash(req[h].block[1])
PrefixHolds(h) == starts_with(req[h].block[1].hash, Zeros(difficulty))

\* C12: validate_block(block, expected) is true exactly when the block's
\* previous_hash is the expected one, its stored hash is the hash recomputed
\* from its fields, and the hash begins with difficulty zeros; so one
\* failing check alone makes it false.
C12_ValidateIffThreeChecks ==
    \A h \in Handlers :
        Validated(h) => (ret[h].verdicts[1] <=> (LinkHolds(h) /\ HashHolds(h) /\ PrefixHolds(h)))

\* C12 witness: a block with the right link and a correctly recomputed hash
\* was rejected only because the hash misses the difficulty
C12_Witness ==
    \E h \in Handlers :
        /\ Validated(h) /\ ~ret[h].verdicts[1]
        /\ LinkHolds(h) /\ HashHolds(h) /\ ~PrefixHolds(h)
        /\ req[h].position >= 2

\* the other two single failures, and an accepted block
C12_LinkAlone ==
    \E h \in Handlers : Validated(h) /\ ~ret[h].verdicts[1] /\ ~LinkHolds(h) /\ HashHolds(h) /\ PrefixHolds(h)
C12_HashAlone ==
    \E h \in Handlers : Validated(h) /\ ~ret[h].verdicts[1] /\ LinkHolds(h) /\ ~HashHolds(h) /\ PrefixHolds(h)
C12_Accepted ==
    \E h \in Handlers : Validated(h) /\ ret[h].verdicts[1] /\ difficulty >= 1 /\ req[h].position >= 2

\* the fields in which block b differs from block c
DiffFields(b, c) == {f \in DOMAIN b : b[f] # c[f]}

\* a copy of a chain block with exactly one field other than hash altered,
\* validated against the hash of that block's predecessor
SingleAlteration(h, fields) ==
    /\ Validated(h)
    /\ req[h].previous_hash = (IF req[h].position = 1 THEN GenesisSentinel ELSE chain[req[h].position - 1].hash)
    /\ Cardinality(DiffFields(req[h].block[1], chain[req[h].position])) = 1
    /\ DiffFields(req[h].block[1], chain[req[h].position]) \subseteq fields

\* C13 as claimed: a chain block with any single field other than hash
\* altered (index, timestamp, a transaction, previous_hash, nonce or miner)
\* and the stored hash kept fails validate_block against its predecessor's hash.
C13_HashCommitsToAllFields ==
    \A h \in Handlers :
        SingleAlteration(h, {"index", "timestamp", "transactions", "previous_hash", "nonce", "miner"})
            => ~ret[h].verdicts[1]

\* what holds: alterations of the five hashed fields are detected
C13_HashedFieldsDetected ==
    \A h \in Handlers :
        SingleAlteration(h, {"index", "timestamp", "transactions", "previous_hash", "nonce"})
            => ~ret[h].verdicts[1]

\* what a step does where a caller validates its copy of a block
ValidateFrame(h) ==
    /\ (pc[h] = "validate" /\ ret'[h] # ret[h]) =>
          /\ chain' = chain /\ transaction_pool' = transaction_pool /\ difficulty' = difficulty
          /\ req'[h] = req[h]
    /\ (pc[h] \in {"validate", "between"} /\ pc'[h] \in {"validate", "between"}) =>
          /\ req'[h].block = req[h].block /\ req'[h].previous_hash = req[h].previous_hash

C14_RejectedTwice ==
    \E h \in Handlers :
        /\ Len(ret[h].verdicts) >= 2 /\ ~ret[h].verdicts[1] /\ ~ret[h].verdicts[2]
        /\ ret[h].heights[1] < ret[h].heights[2]
        /\ ~HashHolds(h) /\ LinkHolds(h)

\* what a step does to the loop's round
LoopRound ==
    /\ (pc[Loop] = "check" /\ pc'[Loop] # "check") =>
          /\ pc'[Loop] = (IF Len(transaction_pool) > POOL_THRESHOLD THEN "mine" ELSE "done")
          /\ chain' = chain /\ transaction_pool' = transaction_pool /\ lock' = Loop
    /\ (pc'[Loop] = "mine" /\ pc[Loop] # "mine") => pc[Loop] = "check"
    /\ (pc[Loop] = "drained" /\ pc'[Loop] # "drained") => pc'[Loop] = "done"
    /\ (pc[Loop] = "done" /\ pc'[Loop] # "done") => pc'[Loop] = "sleep" /\ lock' = "free"
    /\ (lock = Loop /\ chain' # chain) => pc[Loop] = "drained"

\* C15: the loop decides to mine only at its check, under the lock, and only
\* when the pool then holds more than 10 transactions; a round has at most
\* one mining attempt, which is followed by the release of the lock; every
\* block the loop appended holds at least 11 transactions.
C15_LoopThreshold ==
    /\ [](\A i \in DOMAIN chain : chain[i].miner = LoopKey => Len(chain[i].transactions) > POOL_THRESHOLD)
    /\ [](pc[Loop] \in {"mine", "drained"} =>
            /\ lock = Loop /\ entry.active /\ Len(entry.pool) > POOL_THRESHOLD
            /\ pc[Loop] = "mine" => transaction_pool = entry.pool)
    /\ [][LoopRound]_vars

\* C15 witness: the loop has appended a block of 11 transactions behind a
\* block of a handler, in a round it entered with the pool above the threshold
C15_Witness ==
    /\ pc[Loop] = "done" /\ ret[Loop].block # <<>>
    /\ Len(chain) >= 3 /\ chain[Len(chain)].miner = LoopKey
    /\ Len(chain[Len(chain)].transactions) = POOL_THRESHOLD + 1
    /\ transaction_pool = <<>>

\* C16: while the loop sleeps it does not hold the lock; the lock is then
\* free or held by a request handler, and when no handler is inside, a
\* handler can take it.
C16_NoSleepWithLock ==
    pc[Loop] = "sleep" =>
        /\ lock # Loop
        /\ (\A h \in Handlers : pc[h] = "idle") => lock = "free" /\ ENABLED CallBalance("h1")
        /\ \A h \in Handlers : pc[h] # "idle" => lock = h

\* C16 witness: the loop sleeps after a round in which it mined, and a
\* request handler is inside the lock
C16_Witness ==
    /\ pc[Loop] = "sleep"
    /\ \E i \in DOMAIN chain : chain[i].miner = LoopKey
    /\ \E h \in Handlers : lock = h /\ pc[h] = "balance"

\* C17: whenever the pool holds more than 10 transactions (and the chain
\* may still grow), a block is eventually appended, and the block appended
\* next holds those transactions.
C17_LoopLiveness ==
    \A n \in 1..(MaxChain - 1) :
        (Len(transaction_pool) > POOL_THRESHOLD /\ Len(chain) = n)
            ~> (Len(chain) > n /\ Len(chain[n + 1].transactions) > POOL_THRESHOLD)

\* C17 witness: the loop has mined a pool of 11 behind a handler's block and
\* is asleep again with the lock free and the pool empty
C17_Witness ==
    /\ pc[Loop] = "sleep" /\ lock = "free"
    /\ Len(chain) = MaxChain /\ chain[MaxChain].miner = LoopKey
    /\ chain[MaxChain - 1].miner # LoopKey
    /\ transaction_pool = <<>>

\* C18: a balance query changes neither chain nor pool and returns the
\* value fixed by the chain at the last append, whatever the pool holds;
\* the balance check of an admission changes nothing by itself and lets a
\* correctly signed transaction through exactly when that value covers the amount.
C18_BalanceReadOnly ==
    [][\A h \in Handlers :
         /\ (pc[h] = "balance" /\ pc'[h] = "done") =>
               /\ chain' = chain /\ transaction_pool' = transaction_pool
               /\ ret'[h].balance = running[req[h].address]
               /\ running' = running
         /\ (pc[h] = "submit" /\ pc'[h] = "done" /\ req[h].tx.from # FAUCET_MOCKCHAIN_ADDRESS
                /\ ~SignatureFails(req[h].tx)) =>
               /\ ret'[h].success <=> running[req[h].tx.from] >= req[h].tx.amount
               /\ chain' = chain /\ running' = running
               /\ ~ret'[h].success => transaction_pool' = transaction_pool]_vars

\* C18 witness: a balance was returned while the pool held a pending credit
\* to and a pending debit from the queried address
C18_Witness ==
    \E h \in Handlers :
        /\ pc[h] = "done" /\ ret[h].op = "get_balance" /\ req[h].address = "alice"
        /\ ret[h].balance = faucet_amount
        /\ \E k \in DOMAIN transaction_pool : transaction_pool[k].from = "alice"
        /\ \E k \in DOMAIN transaction_pool : transaction_pool[k].to = "alice"

\* the replayed balance of address a just before transaction j of block i
BalanceBefore(i, j, a) ==
    TxLoop(SubSeq(chain[i].transactions, 1, j - 1), a, BlockLoop(SubSeq(chain, 1, i - 1), a, 0))

\* C20 as claimed: every committed transaction of a sender other than the
\* faucet sentinel finds at least its amount in the sender's replayed
\* balance, so the saturating debit never truncates.
C20_NoOverspending ==
    \A i \in DOMAIN chain : \A j \in DOMAIN chain[i].transactions :
        chain[i].transactions[j].from # FAUCET_MOCKCHAIN_ADDRESS =>
            BalanceBefore(i, j, chain[i].transactions[j].from) >= chain[i].transactions[j].amount

\* the block a running search holds, with its nonce moved n further
NonceAhead(h, n) ==
    LET b == [ret[h].block[1] EXCEPT !.nonce = @ + n]
    IN  [b EXCEPT !.hash = calculate_hash(b)]

\* C19 as claimed: under every difficulty a running nonce search has, at or
\* ahead of its nonce, a nonce whose hash begins with difficulty zeros (the
\* digits of the digest repeat after Modulus nonces, so one round is
\* all there is to find), and under difficulty 0 it is done at nonce 0.
C19_SearchTerminates ==
    \A h \in Handlers :
        pc[h] = "search" =>
            /\ \E n \in 0..(Modulus - 1) : starts_with(NonceAhead(h, n).hash, Zeros(difficulty))
            /\ difficulty = 0 => ret[h].block[1].nonce = 0 /\ starts_with(ret[h].block[1].hash, Zeros(0))

\* what holds: a difficulty up to the digest's length is met, and the block
\* returned is the one the recursion of generate_block gives
C19_SearchWithinDigest ==
    \A h \in Handlers :
        /\ (pc[h] = "search" /\ difficulty <= Len(ret[h].block[1].hash.hex)) =>
              \E n \in 0..(Modulus - 1) : starts_with(NonceAhead(h, n).hash, Zeros(difficulty))
        /\ pc[h] = "returned" =>
              \E b \in {ret[h].block[1]} :
                  b = generate_block(difficulty, b.index, b.transactions, b.previous_hash, b.timestamp)

\* the message of the response that reports a credit left in the pool
QueuedMessage == "Faucet funds queued for next block"

\* what a step does to a request_faucet call h is in
FaucetSection(h) ==
    /\ (pc[h] = "respond" /\ pc'[h] = "done") =>
          /\ ret[h].block # <<>>
          /\ chain = push(entry.chain, ret[h].block[1])
          /\ ret[h].block[1].transactions = entry.pool
          /\ entry.pool[Len(entry.pool)] =
                [from |-> FAUCET_MOCKCHAIN_ADDRESS, to |-> req[h].address, amount |-> faucet_amount,
                 timestamp |-> req[h].tx.timestamp, signature |-> EmptySignature]
          /\ transaction_pool = <<>>
          /\ ret'[h].success /\ ret'[h].amount = faucet_amount
          /\ ret'[h].message = "Faucet funds sent successfully"
          /\ chain' = chain /\ transaction_pool' = transaction_pool
    /\ (pc[h] = "faucet" /\ pc'[h] # "faucet") =>
          /\ entry'.chain = chain
          /\ entry'.pool = push_back(transaction_pool, req[h].tx)
          /\ transaction_pool' = entry'.pool
    /\ (req[h].kind = "faucet" /\ pc'[h] = pc[h]) =>
          /\ chain' = chain /\ transaction_pool' = transaction_pool /\ entry' = entry

\* C21: a request_faucet call adds its credit and mines inside one critical
\* section: no other task changes chain or pool meanwhile, the call appends
\* exactly one block, made of the transactions that were pending followed by
\* the sentinel -> address transfer of 1000, leaves the pool empty, reports
\* success with amount 1000, and never gives the queued response.
C21_FaucetAtomic ==
    /\ [][\A h \in Handlers : FaucetSection(h)]_vars
    /\ [](\A h \in Handlers :
            /\ ret[h].message # QueuedMessage
            /\ (req[h].kind = "faucet" /\ pc[h] # "idle") => lock = h
            /\ pc[h] = "respond" => ret[h].block # <<>>)

\* C21 witness: a faucet call has answered after mining a block that begins
\* with a transfer which was pending below the loop's threshold, while the
\* other handler waits and the loop sleeps
C21_Witness ==
    \E h \in Handlers :
        /\ pc[h] = "done" /\ ret[h].op = "request_faucet" /\ ret[h].success
        /\ Len(chain[Len(chain)].transactions) \in 2..POOL_THRESHOLD
        /\ chain[Len(chain)].transactions[1].from = "alice"
        /\ chain[Len(chain)].miner = req[h].miner
        /\ pc[Loop] = "sleep"
        /\ transaction_pool = <<>>

\* how many times a transaction occurs in a sequence of transactions
Occurrences(txs, tx) == Cardinality({k \in DOMAIN txs : txs[k] = tx})

\* the committed transactions of senders other than the faucet sentinel
CommittedSigned ==
    {tx \in {AllTransactions(chain)[k] : k \in DOMAIN AllTransactions(chain)} : tx.from # FAUCET_MOCKCHAIN_ADDRESS}

\* C22 as claimed: a transaction of a sender other than the faucet sentinel
\* (same from, to, amount, timestamp and signature) is admitted by
\* add_transaction at most once and occurs in the chain at most once.
C22_NoReplay ==
    /\ \A k \in DOMAIN admitted :
          admitted[k].from # FAUCET_MOCKCHAIN_ADDRESS => Occurrences(admitted, admitted[k]) <= 1
    /\ \A tx \in CommittedSigned : Occurrences(AllTransactions(chain), tx) <= 1

\* the second half alone: no signed transaction is committed twice
C22_CommittedOnce ==
    \A tx \in CommittedSigned : Occurrences(AllTransactions(chain), tx) <= 1

\* the transaction waits in the pool / is in a block of the chain
Pending(tx) == \E k \in DOMAIN transaction_pool : transaction_pool[k] = tx
InChain(tx) == \E i \in DOMAIN chain : \E k \in DOMAIN chain[i].transactions : chain[i].transactions[k] = tx

\* C23 as claimed: a transaction that waits in the pool (while the chain may
\* still grow) is eventually in a block of the chain, whether or not any
\* further request arrives.
C23_EventuallyCommitted ==
    \A tx \in FairInputs : (Pending(tx) /\ Len(chain) < MaxChain) ~> InChain(tx)

\* what holds instead: it is committed once the pool has grown past the
\* loop's threshold
C23_CommittedAboveThreshold ==
    \A tx \in FairInputs :
        (Pending(tx) /\ Len(transaction_pool) > POOL_THRESHOLD /\ Len(chain) < MaxChain) ~> InChain(tx)

\* the addresses amounts are sent to and from where widths are followed
WideAddresses == {"alice", "bob", FAUCET_MOCKCHAIN_ADDRESS, "m1"} \cup {FreshKeys[i] : i \in DOMAIN FreshKeys}

\* C24 as claimed: over every chain reachable by submissions, faucet
\* requests and mining, with amounts any u64, no addition of get_balance's
\* replay leaves the u64 range for any address, and no call panics.
C24_NoOverflow ==
    /\ \A a \in WideAddresses : ~get_balance_u64(chain, a).overflow
    /\ \A h \in Handlers : ret[h].op # "panic"

\* parts of it, one outcome each: no call panics; a returned balance is
\* the replay's value without wrapping
C24_NoPanic == \A h \in Handlers : ret[h].op # "panic"
C24_ReturnsReplayValue ==
    \A h \in Handlers :
        (pc[h] = "done" /\ ret[h].op = "get_balance") => ~get_balance_u64(chain, req[h].address).overflow

\* what holds: without a submission in the faucet sentinel's name no
\* addition overflows
C24_OverflowNeedsSentinelSubmission ==
    (\A k \in DOMAIN admitted :
        admitted[k].from = FAUCET_MOCKCHAIN_ADDRESS => admitted[k].amount = U64(faucet_amount))
        => \A a \in WideAddresses : ~get_balance_u64(chain, a).overflow

====
